---- MODULE Spec2Model ----
(***************************************************************************)
(* A model of matroska-metadata: the container navigator (util.js), the    *)
(* metadata getters and the streaming subtitle parser (index.js).          *)
(*                                                                         *)
(* Three specifications share the variables below:                         *)
(*   SpecStream    parseStream / parseFile / destroy / handleBlockGroup    *)
(*   SpecNav       readSeekHeadTag and the four getters                    *)
(*   SpecSeekHead  readSeekHead (index resolution, chained indexes)        *)
(* Each specification drives its own part and leaves the rest unchanged.   *)
(*                                                                         *)
(* JavaScript values are modelled as records [k, v]: k is "num", "null",   *)
(* "undef" or "nan".  Strings are sequences of one-character strings;      *)
(* byte arrays are sequences of 0..255, indexed from 0 as in the source.   *)
(***************************************************************************)
EXTENDS Integers, Sequences, FiniteSets, TLC

VARIABLES
  \* ---- session fields (index.js) ----
  destroyed,               \* this.destroyed
  stable,                  \* this.stable
  timecodeScale,           \* this.timecodeScale
  currentClusterTimecode,  \* this.currentClusterTimecode
  subtitleTracks,          \* this.subtitleTracks: track number -> descriptor
  tracksState,             \* state of the promise this.tracks
  \* ---- one streaming pass (the async generator of parseStream) ----
  pass,                    \* its position and its closure variables
  readLog,                 \* chunks the source handed to the pass
  yieldLog,                \* chunks the pass yielded to its consumer
  totalReads,              \* chunks requested from the source, all passes
  pending,                 \* handleBlockGroup calls suspended at `await`
  decoded,                 \* every block group handed to handleBlockGroup
  events,                  \* emitted 'subtitle' events
  failures,                \* rejected handleBlockGroup promises
  \* ---- navigator (util.js) ----
  nav,                     \* container, tagCache, scans and calls
  \* ---- readSeekHead ----
  sh                       \* file layout, call stack and result

streamVars == <<destroyed, stable, timecodeScale, currentClusterTimecode,
                subtitleTracks, tracksState, pass, readLog, yieldLog,
                totalReads, pending, decoded, events, failures>>
vars == <<streamVars, nav, sh>>

(***************************************************************************)
(* Bounds                                                                  *)
(***************************************************************************)
\* chunks the source delivers over the whole session
MaxChunks == 2

(***************************************************************************)
(* JavaScript values and arithmetic                                        *)
(***************************************************************************)
Num(n) == [k |-> "num", v |-> n]
Null == [k |-> "null", v |-> 0]
Undef == [k |-> "undef", v |-> 0]
NaN == [k |-> "nan", v |-> 0]

\* ToNumber: null is 0, undefined and a non-numeric string are NaN
ToNumber(x) ==
  IF x.k = "num" THEN x
  ELSE IF x.k = "null" THEN Num(0)
  ELSE NaN

\* the string an object operand turns a + into: "[object Object]..."
ObjectString == [k |-> "str", v |-> 0]

\* a + b: with an object operand the operands are concatenated as strings
JsAdd(a, b) ==
  IF a.k = "obj" \/ b.k = "obj" THEN ObjectString
  ELSE LET x == ToNumber(a)
           y == ToNumber(b)
       IN IF x.k = "num" /\ y.k = "num" THEN Num(x.v + y.v) ELSE NaN

JsMul(a, b) ==
  LET x == ToNumber(a)
      y == ToNumber(b)
  IN IF x.k = "num" /\ y.k = "num" THEN Num(x.v * y.v) ELSE NaN

\* a truthy number: neither 0 nor NaN, null, undefined
Truthy(x) == x.k = "num" /\ x.v # 0

(***************************************************************************)
(* Byte arrays                                                             *)
(***************************************************************************)
\* chunk[i], 0-based; -1 stands for undefined (index out of range)
At(chunk, i) == IF i >= 0 /\ i < Len(chunk) THEN chunk[i + 1] ELSE -1

\* chunk.slice(i)
Slice(chunk, i) == SubSeq(chunk, i + 1, Len(chunk))

RECURSIVE BigEndian(_)
BigEndian(s) ==
  IF s = <<>> THEN 0
  ELSE BigEndian(SubSeq(s, 1, Len(s) - 1)) * 256 + s[Len(s)]

(***************************************************************************)
(* Text: arr2text, split, join                                             *)
(***************************************************************************)
\* the printable ASCII characters, code 32 first (the grave accent, which a
\* string of this language cannot hold, is written "?")
Ascii ==
  <<" ", "!", "\"", "#", "$", "%", "&", "'", "(", ")", "*", "+", ",", "-", ".", "/", "0", "1", "2", "3", "4", "5", "6", "7", "8", "9", ":", ";", "<", "=", ">", "?", "@", "A", "B", "C", "D", "E", "F", "G", "H", "I", "J", "K", "L", "M", "N", "O", "P", "Q", "R", "S", "T", "U", "V", "W", "X", "Y", "Z", "[", "\\", "]", "^", "_", "?", "a", "b", "c", "d", "e", "f", "g", "h", "i", "j", "k", "l", "m", "n", "o", "p", "q", "r", "s", "t", "u", "v", "w", "x", "y", "z", "{", "|", "}", "~">>

\* one byte as text; bytes outside printable ASCII decode to "?"
Chr(code) == IF code >= 32 /\ code <= 126 THEN Ascii[code - 31] ELSE "?"

\* arr2text(payload)
arr2text(bytes) == [i \in 1..Len(bytes) |-> Chr(bytes[i])]

\* index of the first sep in s at or after position i, 0 if none
RECURSIVE IndexOf(_, _, _)
IndexOf(s, sep, i) ==
  IF i > Len(s) THEN 0
  ELSE IF s[i] = sep THEN i
  ELSE IndexOf(s, sep, i + 1)

\* s.split(sep)
RECURSIVE Split(_, _)
Split(s, sep) ==
  LET i == IndexOf(s, sep, 1)
  IN IF i = 0 THEN <<s>>
     ELSE <<SubSeq(s, 1, i - 1)>> \o Split(SubSeq(s, i + 1, Len(s)), sep)

\* parts.join(sep)
RECURSIVE Join(_, _)
Join(parts, sep) ==
  IF parts = <<>> THEN <<>>
  ELSE IF Len(parts) = 1 THEN parts[1]
  ELSE parts[1] \o <<sep>> \o Join(Tail(parts), sep)

\* values[i], 0-based: a string or undefined
StrVal(s) == [k |-> "str", s |-> s]
StrUndef == [k |-> "undef", s |-> <<>>]
ValueAt(values, i) == IF i < Len(values) THEN StrVal(values[i + 1]) ELSE StrUndef

(***************************************************************************)
(* The EBML decoder (ebml-iterator), as far as parseStream uses it.        *)
(* Elements have a one-byte size field (128 + length); the identities are  *)
(* Matroska's.  An element cut off by the end of the bytes ends the run.   *)
(***************************************************************************)
ClusterId == <<31, 67, 182, 117>>          \* 0x1F43B675
TimecodeScaleId == <<42, 215, 177>>        \* 0x2AD7B1

\* length of an EBML size field from its first byte; 0 when the byte is 0
VintLength(b) ==
  IF b >= 128 THEN 1 ELSE IF b >= 64 THEN 2 ELSE IF b >= 32 THEN 3
  ELSE IF b >= 16 THEN 4 ELSE IF b >= 8 THEN 5 ELSE IF b >= 4 THEN 6
  ELSE IF b >= 2 THEN 7 ELSE IF b = 1 THEN 8 ELSE 0

HasPrefix(b, p, id) == \A j \in 1..Len(id) : At(b, p + j - 1) = id[j]

NoBlock == [present |-> FALSE, track |-> 0, value |-> 0, payload |-> <<>>]
Tag(id, data, block, duration) ==
  [id |-> id, data |-> data, block |-> block, duration |-> duration]

\* a Block's content: track number, signed 16-bit relative time, flags, payload
ParseBlock(c) ==
  LET t == BigEndian(SubSeq(c, 2, 3))
  IN [present |-> TRUE, track |-> c[1] - 128,
      value |-> IF t >= 32768 THEN t - 65536 ELSE t,
      payload |-> SubSeq(c, 5, Len(c))]

\* the children of a BlockGroup: Block (0xA1) and BlockDuration (0x9B)
RECURSIVE ParseGroup(_, _, _)
ParseGroup(c, p, acc) ==
  LET n == At(c, p + 1) - 128
      content == SubSeq(c, p + 3, p + 2 + n)
  IN IF p >= Len(c) \/ At(c, p + 1) < 128 \/ p + 2 + n > Len(c) THEN acc
     ELSE IF At(c, p) = 161 /\ n >= 4 /\ ~acc.block.present
       THEN ParseGroup(c, p + 2 + n, [acc EXCEPT !.block = ParseBlock(content)])
     ELSE IF At(c, p) = 155 /\ acc.duration.k = "undef"
       THEN ParseGroup(c, p + 2 + n, [acc EXCEPT !.duration = Num(BigEndian(content))])
     ELSE ParseGroup(c, p + 2 + n, acc)

\* decoder.parseTags(bytes): the buffered tags (TimecodeScale, Timecode,
\* BlockGroup) in stream order, decoding from position p (0-based)
RECURSIVE ParseTags(_, _)
ParseTags(b, p) ==
  IF p >= Len(b) THEN <<>>
  ELSE IF HasPrefix(b, p, ClusterId) THEN
    \* a master element: its children follow its header
    IF VintLength(At(b, p + 4)) = 0 THEN <<>>
    ELSE ParseTags(b, p + 4 + VintLength(At(b, p + 4)))
  ELSE IF HasPrefix(b, p, TimecodeScaleId) THEN
    LET n == At(b, p + 3) - 128
    IN IF At(b, p + 3) < 128 \/ p + 4 + n > Len(b) THEN <<>>
       ELSE <<Tag("TimecodeScale", BigEndian(SubSeq(b, p + 5, p + 4 + n)), NoBlock, Undef)>>
            \o ParseTags(b, p + 4 + n)
  ELSE
    LET n == At(b, p + 1) - 128
        content == SubSeq(b, p + 3, p + 2 + n)
    IN IF At(b, p + 1) < 128 \/ p + 2 + n > Len(b) THEN <<>>
       ELSE IF At(b, p) = 231
         THEN <<Tag("Timecode", BigEndian(content), NoBlock, Undef)>>
              \o ParseTags(b, p + 2 + n)
       ELSE IF At(b, p) = 160
         THEN <<ParseGroup(content, 0, Tag("BlockGroup", 0, NoBlock, Undef))>>
              \o ParseTags(b, p + 2 + n)
       ELSE ParseTags(b, p + 2 + n)

\* EbmlTagId[byte]: the one-byte element identities of the enum
\* (Block, BlockGroup, SimpleBlock, Position, PrevSize, BlockDuration,
\*  CRC-32, Timecode, Void)
OneByteTagIds == {161, 160, 163, 167, 171, 155, 191, 231, 236}
EbmlTagIdOf(byte) == byte \in OneByteTagIds

\* inflateSync(payload): a zlib stream starts with 0x78; anything else throws.
\* The body is taken as stored (uncompressed) data.
InflateOk(payload) == Len(payload) >= 1 /\ payload[1] = 120
inflateSync(payload) == Tail(payload)

(***************************************************************************)
(* getTracks: from the children of the Tracks element to the registry.     *)
(* A child is a record of what getData/getChild read from it:              *)
(*   id, trackType, codecID, number, language, name, codecPrivate and      *)
(*   compression (a ContentEncodings > ContentEncoding > ContentCompression*)
(*   descendant exists).                                                   *)
(* this.subtitleTracks is a Map: a sequence of descriptors in insertion    *)
(* order, keyed by their number.                                           *)
(***************************************************************************)
MapHas(map, key) == \E i \in 1..Len(map) : map[i].number = key
MapGet(map, key) == map[CHOOSE i \in 1..Len(map) : map[i].number = key]
MapKeys(map) == {map[i].number : i \in 1..Len(map)}
\* map.set(value.number, value): replaces in place, or appends
MapSet(map, value) ==
  IF MapHas(map, value.number)
  THEN [i \in 1..Len(map) |-> IF map[i].number = value.number THEN value ELSE map[i]]
  ELSE Append(map, value)

\* c.toLowerCase() for one character
ToLowerChar(c) ==
  IF \E i \in 34..59 : Ascii[i] = c
  THEN Ascii[(CHOOSE i \in 34..59 : Ascii[i] = c) + 32]
  ELSE c
toLowerCase(str) == [i \in 1..Len(str) |-> ToLowerChar(str[i])]
\* str.startsWith(prefix)
startsWith(str, prefix) ==
  Len(str) >= Len(prefix) /\ SubSeq(str, 1, Len(prefix)) = prefix
\* str.substring(n)
substring(str, n) == SubSeq(str, n + 1, Len(str))

S_TEXT == <<"S", "_", "T", "E", "X", "T">>

\* getData(entry, EbmlTagId.CodecID) || ''
CodecOf(entry) ==
  IF entry.codecID.k = "str" /\ entry.codecID.s # <<>> THEN entry.codecID.s ELSE <<>>

\* the test of lines 76-79: subtitle track type 0x11 and an S_TEXT codec
IsTextSubtitle(entry) ==
  entry.trackType = Num(17) /\ startsWith(CodecOf(entry), S_TEXT)

\* the descriptor of lines 80-101; name and header are set only when truthy
TrackOf(entry) ==
  [number |-> entry.number,
   language |-> entry.language,
   type |-> toLowerCase(substring(CodecOf(entry), 7)),
   name |-> IF entry.name.k = "str" /\ entry.name.s # <<>> THEN entry.name ELSE StrUndef,
   header |-> IF entry.codecPrivate # <<>>
              THEN StrVal(arr2text(entry.codecPrivate)) ELSE StrUndef,
   compressed |-> entry.compression]

\* the loop of lines 74-105 over Tracks.Children, into the Map
RECURSIVE CollectTracks(_, _)
CollectTracks(children, map) ==
  IF children = <<>> THEN map
  ELSE LET entry == Head(children)
       IN IF entry.id = "TrackEntry" /\ IsTextSubtitle(entry)
          THEN CollectTracks(Tail(children), MapSet(map, TrackOf(entry)))
          ELSE CollectTracks(Tail(children), map)

\* track entries used by the specifications
Entry(type, codec, number, compression) ==
  [id |-> "TrackEntry", trackType |-> type, codecID |-> codec, number |-> Num(number),
   language |-> StrVal(<<"e", "n", "g">>), name |-> StrUndef,
   codecPrivate |-> <<>>, compression |-> compression]
CodecUTF8 == StrVal(<<"S", "_", "T", "E", "X", "T", "/", "U", "T", "F", "8">>)
CodecASS == StrVal(<<"S", "_", "T", "E", "X", "T", "/", "A", "S", "S">>)
CodecVobSub == StrVal(<<"S", "_", "V", "O", "B", "S", "U", "B">>)
CodecVideo == StrVal(<<"V", "_", "M", "P", "E", "G", "4">>)

(***************************************************************************)
(* handleBlockGroup                                                        *)
(***************************************************************************)
SSA_TYPES == {<<"s", "s", "a">>, <<"a", "s", "s">>}
SSA_KEYS == <<"readOrder", "layer", "style", "name", "marginL", "marginR",
              "marginV", "effect", "text">>

NoSubtitle == [text |-> <<>>, time |-> Undef, duration |-> Undef, fields |-> <<>>]

\* a mutant of EventTime: only the relative time is scaled
EventTimeRelativeScaled(value, clusterTimecode, scale) ==
  JsAdd(JsMul(Num(value), scale), clusterTimecode)

\* time: (block.value + currentClusterTimecode) * timecodeScale (line 181)
EventTime(value, clusterTimecode, scale) ==
  JsMul(JsAdd(Num(value), clusterTimecode), scale)

\* duration: blockDuration * timecodeScale (line 182)
EventDuration(blockDuration, scale) == JsMul(blockDuration, scale)

\* a mutant of BuildSubtitle: for ssa the fields shift by one position
BuildSubtitleShifted(track, payload, block, blockDuration, scale, clusterTimecode) ==
  LET text == arr2text(payload)
      time == EventTime(block.value, clusterTimecode, scale)
      duration == EventDuration(blockDuration, scale)
  IN IF track.type \in SSA_TYPES
     THEN LET values == Split(text, ",")
              first == IF track.type = <<"s", "s", "a">> THEN 2 ELSE 1
              shift == IF track.type = <<"s", "s", "a">> THEN 1 ELSE 0
          IN [text |-> Join(SubSeq(values, 9, Len(values)), ","),
              time |-> time,
              duration |-> duration,
              fields |-> [key \in {SSA_KEYS[i + 1] : i \in first..7} |->
                            ValueAt(values, (CHOOSE i \in first..7 : SSA_KEYS[i + 1] = key)
                                            - shift)]]
     ELSE [text |-> text, time |-> time, duration |-> duration, fields |-> <<>>]

\* the subtitle object built from a payload on a track (lines 179-195)
BuildSubtitle(track, payload, block, blockDuration, scale, clusterTimecode) ==
  LET text == arr2text(payload)
      time == EventTime(block.value, clusterTimecode, scale)
      duration == EventDuration(blockDuration, scale)
  IN IF track.type \in SSA_TYPES
     THEN LET values == Split(text, ",")
              first == IF track.type = <<"s", "s", "a">> THEN 2 ELSE 1
          IN [text |-> Join(SubSeq(values, 9, Len(values)), ","),
              time |-> time,
              duration |-> duration,
              fields |-> [key \in {SSA_KEYS[i + 1] : i \in first..7} |->
                            ValueAt(values, CHOOSE i \in first..7 : SSA_KEYS[i + 1] = key)]]
     ELSE [text |-> text, time |-> time, duration |-> duration, fields |-> <<>>]

\* a mutant of PayloadOf: a payload that does not inflate is used as it is
PayloadOfRawOnError(track, block) ==
  IF track.compressed /\ InflateOk(block.payload)
  THEN [ok |-> TRUE, bytes |-> inflateSync(block.payload)]
  ELSE [ok |-> TRUE, bytes |-> block.payload]

\* the payload of lines 175-177; ok is FALSE when inflateSync throws
PayloadOf(track, block) ==
  IF track.compressed
  THEN IF InflateOk(block.payload)
       THEN [ok |-> TRUE, bytes |-> inflateSync(block.payload)]
       ELSE [ok |-> FALSE, bytes |-> <<>>]
  ELSE [ok |-> TRUE, bytes |-> block.payload]

\* a mutant of handleBlockGroup: a block on a track the registry does not
\* hold is handled as one of the registry's first track
handleBlockGroupAnyTrack(chunk, scale, clusterTimecode, registry) ==
  LET block == chunk.block
  IN IF block.present /\ registry # <<>>
     THEN LET track == IF MapHas(registry, Num(block.track))
                       THEN MapGet(registry, Num(block.track)) ELSE registry[1]
              payload == PayloadOf(track, block)
          IN IF ~payload.ok
             THEN [outcome |-> "throw", subtitle |-> NoSubtitle, track |-> block.track]
             ELSE [outcome |-> "event",
                   subtitle |-> BuildSubtitle(track, payload.bytes, block,
                                              chunk.duration, scale, clusterTimecode),
                   track |-> block.track]
     ELSE [outcome |-> "none", subtitle |-> NoSubtitle, track |-> 0]

\* handleBlockGroup after `await this.tracks` has returned: "event" with the
\* subtitle to emit, "none" when the group is skipped, "throw" when
\* inflateSync throws
handleBlockGroup(chunk, scale, clusterTimecode, registry) ==
  LET block == chunk.block
  IN IF block.present /\ MapHas(registry, Num(block.track))
     THEN LET track == MapGet(registry, Num(block.track))
              payload == PayloadOf(track, block)
          IN IF ~payload.ok
             THEN [outcome |-> "throw", subtitle |-> NoSubtitle, track |-> block.track]
             ELSE [outcome |-> "event",
                   subtitle |-> BuildSubtitle(track, payload.bytes, block,
                                              chunk.duration, scale, clusterTimecode),
                   track |-> block.track]
     ELSE [outcome |-> "none", subtitle |-> NoSubtitle, track |-> 0]

(***************************************************************************)
(* parseStream: the work on one chunk                                      *)
(***************************************************************************)
\* tag.data / 1000000 (the scale declarations of the chunk library are whole
\* multiples of 1000000, for which the quotient is exact)
ScaleOf(data) == Num(data \div 1000000)

\* tagMap[tag.id]?.(tag): st carries the closure variables of the pass, the
\* session's timing fields and the handleBlockGroup calls made so far
ApplyTag(st, tag) ==
  IF tag.id = "TimecodeScale"
    THEN [st EXCEPT !.scale = ScaleOf(tag.data), !.thisScale = ScaleOf(tag.data)]
  ELSE IF tag.id = "Timecode"
    THEN [st EXCEPT !.clusterTimecode = Num(tag.data), !.thisClusterTimecode = Num(tag.data)]
  ELSE IF tag.id = "BlockGroup"
    \* the call's arguments; thisScale and thisClusterTimecode record the
    \* session's fields at the moment of the call
    THEN [st EXCEPT !.calls = Append(@, [tag |-> tag, scale |-> st.scale,
                                         clusterTimecode |-> st.clusterTimecode,
                                         thisScale |-> st.thisScale,
                                         thisClusterTimecode |-> st.thisClusterTimecode])]
  ELSE st

RECURSIVE ApplyTags(_, _)
ApplyTags(st, tags) ==
  IF tags = <<>> THEN st ELSE ApplyTags(ApplyTag(st, Head(tags)), Tail(tags))

RECURSIVE FloorLog2(_)
FloorLog2(b) == IF b <= 1 THEN 0 ELSE 1 + FloorLog2(b \div 2)

\* chunk[i] ... chunk[i + 3] are 0x1f 0x43 0xb6 0x75
MarkerAt(chunk, i) ==
  At(chunk, i) = 31 /\ At(chunk, i + 1) = 67 /\ At(chunk, i + 2) = 182 /\ At(chunk, i + 3) = 117

\* chunk[i + 4 + len] with len = 8 - floor(log2(chunk[i + 4])); log2(0) is
\* -Infinity, the index is then Infinity and the element undefined (-1)
ByteAfterSize(chunk, i) ==
  IF At(chunk, i + 4) <= 0 THEN -1
  ELSE At(chunk, i + 4 + (8 - FloorLog2(At(chunk, i + 4))))

\* a mutant of FirstTagValid: the marker alone is trusted
FirstTagValidAlways(chunk, i) == TRUE

\* the test of line 240
FirstTagValid(chunk, i) == EbmlTagIdOf(ByteAfterSize(chunk, i))

\* the scan loop of an unstable pass, from position i on
RECURSIVE ScanChunk(_, _, _)
ScanChunk(chunk, i, st) ==
  IF i >= Len(chunk) - 12 THEN st
  ELSE IF MarkerAt(chunk, i) /\ FirstTagValid(chunk, i)
    THEN ScanChunk(chunk, i + 1,
           ApplyTags([st EXCEPT !.stable = TRUE], ParseTags(Slice(chunk, i), 0)))
  ELSE ScanChunk(chunk, i + 1, st)

\* the body of the for-await loop up to the yield
ProcessChunk(chunk, st) ==
  IF ~st.stable THEN ScanChunk(chunk, 0, st)
  ELSE ApplyTags(st, ParseTags(chunk, 0))

\* a mutant of YieldOf: a chunk scanned without a match is handed on empty
YieldOfDecoded(chunk, st) == IF st.stable THEN chunk ELSE <<>>

\* the value handed to the consumer by `yield chunk`
YieldOf(chunk, st) == chunk

(***************************************************************************)
(* The streaming specification                                             *)
(***************************************************************************)
\* passes started over the session
MaxPasses == 2

\* a cluster: Timecode 1000, a block group on track 1 (time 50, duration 40)
ChunkA == <<31, 67, 182, 117, 144, 231, 130, 3, 232, 160, 138, 161, 133, 129,
            0, 50, 0, 97, 155, 129, 40>>
\* no cluster start in reach of the scan: a block group on track 2 whose
\* payload is no zlib stream, one on track 1, and a cluster start (with
\* Timecode 3000) in the last 12 bytes
ChunkB == <<160, 138, 161, 133, 130, 0, 10, 0, 98, 155, 129, 5, 160, 138, 161,
            133, 129, 0, 60, 0, 98, 155, 129, 7, 31, 67, 182, 117, 132, 231,
            130, 11, 184>>
\* the marker bytes twice, neither at a cluster: in a Void element followed
\* by a size byte 0, and in the payload of a block on track 1 followed by
\* size byte 0x81 and the byte 0
ChunkC == <<236, 136, 31, 67, 182, 117, 0, 0, 0, 0, 160, 143, 161, 138, 129,
            0, 70, 0, 31, 67, 182, 117, 129, 0, 155, 129, 9, 236, 134, 0, 0,
            0, 0, 0, 0>>
\* two clusters: Timecode 2000 and a block group on track 2 (a zlib stream,
\* no duration); Timecode 3000 and a block group on track 3
ChunkD == <<31, 67, 182, 117, 142, 231, 130, 7, 208, 160, 136, 161, 134, 130,
            0, 5, 0, 120, 99, 31, 67, 182, 117, 144, 231, 130, 11, 184, 160,
            138, 161, 133, 131, 0, 1, 0, 120, 155, 129, 2>>
\* TimecodeScale 2000000 and a block group on track 1
ChunkE == <<42, 215, 177, 131, 30, 132, 128, 160, 138, 161, 133, 129, 0, 3, 0,
            99, 155, 129, 4>>
ChunkLibrary == {ChunkA, ChunkB, ChunkC, ChunkD, ChunkE}

\* the track list of the streamed container: text subtitles on tracks 1
\* (plain) and 2 (compressed, ASS), video on track 3
StreamTracks == <<Entry(Num(17), CodecUTF8, 1, FALSE),
                  Entry(Num(17), CodecASS, 2, TRUE),
                  Entry(Num(1), CodecVideo, 3, FALSE)>>

NoPass == [pc |-> "none", kind |-> "none", no |-> 0, stable |-> FALSE,
           scale |-> Num(1), clusterTimecode |-> Null]

NavIdle == [phase |-> "idle"]
ShIdle == [phase |-> "idle"]

InitStream ==
  /\ destroyed = FALSE
  /\ stable = FALSE
  /\ timecodeScale = Num(1)
  /\ currentClusterTimecode = Null
  /\ subtitleTracks = <<>>
  /\ tracksState = "pending"
  /\ pass = NoPass
  /\ readLog = <<>>
  /\ yieldLog = <<>>
  /\ totalReads = 0
  /\ pending = <<>>
  /\ decoded = <<>>
  /\ events = <<>>
  /\ failures = {}
  /\ nav = NavIdle
  /\ sh = ShIdle

\* the generator runs from its start to the first request for a chunk:
\* lines 206-231
BeginPass(kind, startStable) ==
  [pc |-> "awaitChunk", kind |-> kind, no |-> pass.no + 1, stable |-> startStable,
   scale |-> timecodeScale, clusterTimecode |-> currentClusterTimecode]

\* parseStream(stream) and the consumer's first pull
StartStream ==
  /\ pass.pc \in {"none", "done"}
  /\ pass.no < MaxPasses
  /\ pass' = BeginPass("stream", stable)
  /\ stable' = FALSE
  /\ totalReads' = totalReads + 1
  /\ UNCHANGED <<destroyed, timecodeScale, currentClusterTimecode, subtitleTracks,
                 tracksState, readLog, yieldLog, pending, decoded, events, failures,
                 nav, sh>>

\* getFileStream can hand out a stream of the file: a Blob always can; the
\* synchronization specification also has file-likes without slice and
\* without an async iterator (the comment of part_001 lines 86-87)
Iterable == IF nav.phase = "file" THEN nav.iterable ELSE TRUE

\* parseFile(): this.stable = true, then the first pull of its own parseStream
ParseFile ==
  /\ Iterable
  /\ pass.pc \in {"none", "done"}
  /\ pass.no < MaxPasses
  /\ pass' = BeginPass("file", TRUE)
  /\ stable' = FALSE
  /\ totalReads' = totalReads + 1
  /\ UNCHANGED <<destroyed, timecodeScale, currentClusterTimecode, subtitleTracks,
                 tracksState, readLog, yieldLog, pending, decoded, events, failures,
                 nav, sh>>

\* the source hands over a chunk: the loop body runs up to the yield
Deliver(chunk) ==
  /\ pass.pc = "awaitChunk"
  /\ Len(readLog) < MaxChunks
  /\ LET st == ProcessChunk(chunk,
                 [stable |-> pass.stable, scale |-> pass.scale,
                  clusterTimecode |-> pass.clusterTimecode,
                  thisScale |-> timecodeScale,
                  thisClusterTimecode |-> currentClusterTimecode,
                  calls |-> <<>>])
         n == Len(decoded)
     IN /\ pass' = [pass EXCEPT !.pc = "yielded", !.stable = st.stable,
                                !.scale = st.scale,
                                !.clusterTimecode = st.clusterTimecode]
        /\ timecodeScale' = st.thisScale
        /\ currentClusterTimecode' = st.thisClusterTimecode
        /\ decoded' = decoded \o
             [i \in 1..Len(st.calls) |->
                [call |-> st.calls[i], chunkNo |-> Len(readLog) + 1,
                 passNo |-> pass.no, suspended |-> tracksState = "pending"]]
        /\ pending' = pending \o [i \in 1..Len(st.calls) |-> n + i]
        /\ readLog' = Append(readLog, chunk)
        /\ yieldLog' = Append(yieldLog, YieldOf(chunk, st))
  /\ UNCHANGED <<destroyed, stable, subtitleTracks, tracksState, totalReads,
                 events, failures, nav, sh>>

\* the source ends: the for-await loop and the generator finish
SourceEnd ==
  /\ pass.pc = "awaitChunk"
  /\ pass' = [pass EXCEPT !.pc = "done"]
  /\ UNCHANGED <<destroyed, stable, timecodeScale, currentClusterTimecode,
                 subtitleTracks, tracksState, readLog, yieldLog, totalReads,
                 pending, decoded, events, failures, nav, sh>>

\* a mutant of AfterYield: the destroyed flag is not looked at
AfterYieldUnchecked(isDestroyed) == [pc |-> "awaitChunk", reads |-> 1]

\* what follows a yield once the generator is resumed (line 255), or once
\* the loop body of parseFile has run (line 263): the end of the pass when
\* the session is destroyed, otherwise the request for the next chunk
AfterYield(isDestroyed) ==
  IF isDestroyed THEN [pc |-> "done", reads |-> 0]
  ELSE [pc |-> "awaitChunk", reads |-> 1]

\* the consumer of parseStream pulls again
StreamPull ==
  /\ pass.pc = "yielded"
  /\ pass.kind = "stream"
  /\ pass' = [pass EXCEPT !.pc = AfterYield(destroyed).pc]
  /\ totalReads' = totalReads + AfterYield(destroyed).reads
  /\ UNCHANGED <<destroyed, stable, timecodeScale, currentClusterTimecode,
                 subtitleTracks, tracksState, readLog, yieldLog, pending, decoded,
                 events, failures, nav, sh>>

\* the loop of parseFile: return when destroyed, else pull again
FileNext ==
  /\ pass.pc = "yielded"
  /\ pass.kind = "file"
  /\ pass' = [pass EXCEPT !.pc = AfterYield(destroyed).pc]
  /\ totalReads' = totalReads + AfterYield(destroyed).reads
  /\ UNCHANGED <<destroyed, stable, timecodeScale, currentClusterTimecode,
                 subtitleTracks, tracksState, readLog, yieldLog, pending, decoded,
                 events, failures, nav, sh>>

\* destroy()
DestroyValue == TRUE
Destroy ==
  /\ destroyed' = DestroyValue
  /\ destroyed' # destroyed
  /\ UNCHANGED <<stable, timecodeScale, currentClusterTimecode, subtitleTracks,
                 tracksState, pass, readLog, yieldLog, totalReads, pending,
                 decoded, events, failures, nav, sh>>

\* the promise this.tracks is fulfilled: getTracks has filled the registry
ResolveTracks ==
  /\ tracksState = "pending"
  /\ tracksState' = "resolved"
  /\ subtitleTracks' = CollectTracks(StreamTracks, subtitleTracks)
  /\ UNCHANGED <<destroyed, stable, timecodeScale, currentClusterTimecode, pass,
                 readLog, yieldLog, totalReads, pending, decoded, events,
                 failures, nav, sh>>

\* the promise this.tracks is rejected (the index could not be resolved)
RejectTracks ==
  /\ tracksState = "pending"
  /\ tracksState' = "rejected"
  /\ UNCHANGED <<destroyed, stable, timecodeScale, currentClusterTimecode,
                 subtitleTracks, pass, readLog, yieldLog, totalReads, pending,
                 decoded, events, failures, nav, sh>>

\* a mutant of Resume: the call that awaited last is resumed first
ResumeLast(queue) ==
  [run |-> queue[Len(queue)], rest |-> SubSeq(queue, 1, Len(queue) - 1)]

\* `await this.tracks` (line 165): the calls suspended on the promise are
\* resumed in the order in which they awaited it
Resume(queue) == [run |-> Head(queue), rest |-> Tail(queue)]

\* a mutant of RunHandler: the handler reads the session's timing fields
\* when it runs, not the values of the call
RunHandlerLate ==
  /\ pending # <<>>
  /\ tracksState # "pending"
  /\ LET origin == Resume(pending).run
         c == decoded[origin].call
         r == IF tracksState = "rejected"
              THEN [outcome |-> "throw", subtitle |-> NoSubtitle, track |-> 0]
              ELSE handleBlockGroup(c.tag, timecodeScale, currentClusterTimecode,
                                    subtitleTracks)
     IN /\ pending' = Resume(pending).rest
        /\ events' = IF r.outcome = "event"
                     THEN Append(events, [subtitle |-> r.subtitle, track |-> r.track,
                                          origin |-> origin])
                     ELSE events
        /\ failures' = IF r.outcome = "throw" THEN failures \cup {origin} ELSE failures
  /\ UNCHANGED <<destroyed, stable, timecodeScale, currentClusterTimecode,
                 subtitleTracks, tracksState, pass, readLog, yieldLog, totalReads,
                 decoded, nav, sh>>

\* a suspended handleBlockGroup call runs to its end
RunHandler ==
  /\ pending # <<>>
  /\ tracksState # "pending"
  /\ LET origin == Resume(pending).run
         c == decoded[origin].call
         r == IF tracksState = "rejected"
              THEN [outcome |-> "throw", subtitle |-> NoSubtitle, track |-> 0]
              ELSE handleBlockGroup(c.tag, c.scale, c.clusterTimecode, subtitleTracks)
     IN /\ pending' = Resume(pending).rest
        /\ events' = IF r.outcome = "event"
                     THEN Append(events, [subtitle |-> r.subtitle, track |-> r.track,
                                          origin |-> origin])
                     ELSE events
        /\ failures' = IF r.outcome = "throw" THEN failures \cup {origin} ELSE failures
  /\ UNCHANGED <<destroyed, stable, timecodeScale, currentClusterTimecode,
                 subtitleTracks, tracksState, pass, readLog, yieldLog, totalReads,
                 decoded, nav, sh>>

NextStream ==
  \/ StartStream
  \/ ParseFile
  \/ \E chunk \in ChunkLibrary : Deliver(chunk)
  \/ SourceEnd
  \/ StreamPull
  \/ FileNext
  \/ Destroy
  \/ ResolveTracks
  \/ RejectTracks
  \/ RunHandler

SpecStream == InitStream /\ [][NextStream]_vars

(***************************************************************************)
(* Claims about the streaming pass                                         *)
(***************************************************************************)
Last(seq) == seq[Len(seq)]
Range(seq) == {seq[i] : i \in 1..Len(seq)}

\* C3: once the destroyed flag is set and the pass has yielded a chunk, the
\* next step of the pass (the consumer's pull on parseStream, the loop of
\* parseFile) ends it and requests no chunk from the source; while the flag is
\* set a chunk is requested only by the first pull of a newly started pass;
\* and the flag, once set, stays set.
C3_DestroyStopsReading ==
  [][ /\ (destroyed /\ pass.pc = "yielded")
           => /\ totalReads' = totalReads
              /\ readLog' = readLog
              /\ pass'.pc \in {"yielded", "done"}
      /\ (destroyed /\ totalReads' > totalReads) => pass.pc \in {"none", "done"}
      /\ (destroyed => destroyed')
    ]_vars

\* C3 witness: a parseStream pass that yielded a chunk was ended by the pull
\* that followed destroy(): every request it made was answered by a chunk
C3_Witness ==
  /\ destroyed
  /\ pass.pc = "done"
  /\ pass.kind = "stream"
  /\ pass.no = 1
  /\ yieldLog # <<>>
  /\ totalReads = Len(readLog)

\* C4: the chunks parseStream has yielded are exactly the chunks the source
\* has handed to it, in the same order and unchanged, stable or not, decoded
\* or not.
C4_PassThrough == yieldLog = readLog

\* C4 witness: an unstable pass yielded a chunk in which no cluster start is
\* found, and then a chunk with two cluster starts
C4_Witness ==
  /\ pass.kind = "stream"
  /\ pass.no = 1
  /\ yieldLog = <<ChunkB, ChunkD>>
  /\ pass.stable

\* the positions of a chunk that hold the cluster marker followed, after a
\* size field of the length its first byte announces, by a one-byte element
\* identity
TrustedPositions(chunk) ==
  {i \in 0..(Len(chunk) - 1) :
     /\ i + 4 <= Len(chunk)
     /\ SubSeq(chunk, i + 1, i + 4) = ClusterId
     /\ VintLength(At(chunk, i + 4)) # 0
     /\ At(chunk, i + 4 + VintLength(At(chunk, i + 4))) \in OneByteTagIds}
MarkerPositions(chunk) ==
  {i \in 0..(Len(chunk) - 4) : SubSeq(chunk, i + 1, i + 4) = ClusterId}

\* C5: an unstable pass becomes stable on a chunk only if the chunk has a
\* position holding the marker whose following byte (after the size field) is
\* a recognized identity; on a chunk whose marker occurrences all fail that
\* check it stays unstable, decodes nothing, leaves the timing state alone,
\* raises nothing and yields the chunk.
C5_ResyncDoubleCheck ==
  [][ (pass.pc = "awaitChunk" /\ ~pass.stable /\ pass'.pc = "yielded")
        => LET chunk == Last(readLog')
           IN /\ pass'.stable => TrustedPositions(chunk) # {}
              /\ TrustedPositions(chunk) = {}
                   => /\ ~pass'.stable
                      /\ decoded' = decoded
                      /\ pending' = pending
                      /\ timecodeScale' = timecodeScale
                      /\ currentClusterTimecode' = currentClusterTimecode
                      /\ pass'.scale = pass.scale
                      /\ pass'.clusterTimecode = pass.clusterTimecode
                      /\ failures' = failures
                      /\ Last(yieldLog') = chunk
    ]_vars

\* C5 witness: an unstable pass scanned a chunk with two marker occurrences
\* that fail the check, stayed unstable with nothing decoded, and became
\* stable on the next chunk
C5_Witness ==
  /\ pass.kind = "stream"
  /\ pass.no = 1
  /\ readLog = <<ChunkC, ChunkA>>
  /\ MarkerPositions(ChunkC) # {}
  /\ pass.stable
  /\ decoded # <<>>
  /\ \A n \in 1..Len(decoded) : decoded[n].chunkNo = 2

\* C6: subtitle events are emitted in the order in which their block groups
\* were decoded.
C6_EventOrder ==
  \A i, j \in 1..Len(events) : i < j => events[i].origin < events[j].origin

\* C6 witness: two events from block groups of different chunks, both handled
\* after waiting for the track registry
C6_Witness ==
  \E i, j \in 1..Len(events) :
    /\ i < j
    /\ decoded[events[i].origin].chunkNo < decoded[events[j].origin].chunkNo
    /\ decoded[events[i].origin].suspended
    /\ decoded[events[j].origin].suspended

\* C7: an event whose block group was decoded under a known cluster timecode
\* has time = (relative time + cluster timecode) * timecodeScale, and with a
\* block duration, duration = block duration * timecodeScale; the scale is 1
\* as long as no scale element was decoded.
C7_Timing ==
  /\ \A i \in 1..Len(events) :
       LET c == decoded[events[i].origin].call
       IN /\ c.thisClusterTimecode.k = "num"
               => events[i].subtitle.time =
                    Num((c.tag.block.value + c.thisClusterTimecode.v) * c.thisScale.v)
          /\ c.tag.duration.k = "num"
               => events[i].subtitle.duration = Num(c.tag.duration.v * c.thisScale.v)
          /\ ChunkE \notin Range(SubSeq(readLog, 1, decoded[events[i].origin].chunkNo))
               => c.thisScale = Num(1)
  /\ ChunkE \notin Range(readLog) => timecodeScale = Num(1)

\* C7 witness: scale 1, cluster timecode 1000, relative time 50 and duration
\* 40 give time 1050 and duration 40
C7_Witness ==
  \E i \in 1..Len(events) :
    LET c == decoded[events[i].origin].call
    IN /\ c.thisScale = Num(1)
       /\ c.thisClusterTimecode = Num(1000)
       /\ c.tag.block.value = 50
       /\ c.tag.duration = Num(40)
       /\ events[i].subtitle.time = Num(1050)
       /\ events[i].subtitle.duration = Num(40)

\* the handled calls, and what each should have led to
Handled == (1..Len(decoded)) \ Range(pending)
InflateFails(n) ==
  LET b == decoded[n].call.tag.block
  IN /\ b.present
     /\ MapHas(subtitleTracks, Num(b.track))
     /\ MapGet(subtitleTracks, Num(b.track)).compressed
     /\ ~InflateOk(b.payload)
OnSubtitleTrack(n) ==
  LET b == decoded[n].call.tag.block
  IN b.present /\ MapHas(subtitleTracks, Num(b.track))

\* C8: a block whose handling fails produces no event and stops nothing: the
\* failing step leaves the pass, its chunks and the other calls as they are,
\* and every handled block on a subtitle track whose own handling does not
\* fail has produced its event.
C8_FailureConfined ==
  /\ [](/\ {events[i].origin : i \in 1..Len(events)}
             = {n \in Handled : tracksState = "resolved" /\ OnSubtitleTrack(n)
                                  /\ ~InflateFails(n)}
        /\ failures = {n \in Handled : tracksState = "rejected" \/ InflateFails(n)})
  /\ [][ failures' # failures
           => /\ pass' = pass
              /\ readLog' = readLog
              /\ yieldLog' = yieldLog
              /\ totalReads' = totalReads
              /\ events' = events
              /\ pending' = Tail(pending)
       ]_vars

\* C8 witness: inflating a block failed; the pass read a later chunk and a
\* block of that chunk produced its event
C8_Witness ==
  \E n \in failures : \E i \in 1..Len(events) :
    /\ tracksState = "resolved"
    /\ InflateFails(n)
    /\ decoded[n].chunkNo < decoded[events[i].origin].chunkNo
    /\ decoded[n].passNo = decoded[events[i].origin].passNo

(***************************************************************************)
(* The getters: what each makes of the element readSeekHeadTag returns.    *)
(* An element is "undef" (never cached), "null" (the scan found nothing)   *)
(* or a master element with Children.                                      *)
(***************************************************************************)
NoElement == [k |-> "undef", name |-> "", scan |-> 0]
NullElement == [k |-> "null", name |-> "", scan |-> 0]
Element(name, scan) == [k |-> "tag", name |-> name, scan |-> scan]

\* x / y for the quotients the model meets: exact ones
JsDiv(a, b) ==
  LET x == ToNumber(a)
      y == ToNumber(b)
  IN IF x.k = "num" /\ y.k = "num" /\ y.v # 0 /\ x.v % y.v = 0
     THEN Num(x.v \div y.v) ELSE NaN

\* a || b
JsOr(a, b) == IF Truthy(a) THEN a ELSE b

\* getDuration, lines 156-158: Info's Duration child, if any
DurationOf(elem, children) ==
  IF elem.k # "tag" \/ children = <<>> THEN Undef
  ELSE IF \E i \in 1..Len(children) : children[i].id = "Duration"
    THEN children[CHOOSE i \in 1..Len(children) :
                    /\ children[i].id = "Duration"
                    /\ \A j \in 1..(i - 1) : children[j].id # "Duration"].data
  ELSE Undef

\* getAttachments, lines 58-62
AttachmentsOf(elem, children) ==
  IF elem.k # "tag" THEN <<>>
  ELSE [i \in 1..Len(children) |->
          [filename |-> children[i].filename, mimetype |-> children[i].mimetype,
           data |-> children[i].data]]

\* getTracks, lines 72-109: the registry after the call
TracksOf(elem, children, map) ==
  IF elem.k # "tag" \/ children = <<>> THEN map
  ELSE CollectTracks(children, map)
\* ... and its return value: [] without children, else the Map's values
TracksResult(elem, children, map) ==
  IF elem.k # "tag" \/ children = <<>> THEN <<>>
  ELSE CollectTracks(children, map)

\* a mutant of DefaultEdition: the default flag is ignored
DefaultEditionFirst(editions) ==
  IF editions # <<>> THEN [k |-> "tag", e |-> editions[1]]
  ELSE [k |-> "undef", e |-> <<>>]
\* editions.find(flagged default) || editions[0]; "undef" without editions
DefaultEdition(editions) ==
  IF \E i \in 1..Len(editions) : Truthy(editions[i].flagDefault)
  THEN [k |-> "tag",
        e |-> editions[CHOOSE i \in 1..Len(editions) :
                         /\ Truthy(editions[i].flagDefault)
                         /\ \A j \in 1..(i - 1) : ~Truthy(editions[j].flagDefault)]]
  ELSE IF editions # <<>> THEN [k |-> "tag", e |-> editions[1]]
  ELSE [k |-> "undef", e |-> <<>>]

\* the loop of lines 133-144, from atom i down to 1; chapters holds the
\* entries built so far (those after i)
RECURSIVE ChapterLoop(_, _, _, _, _)
ChapterLoop(atoms, i, scale, duration, chapters) ==
  IF i = 0 THEN chapters
  ELSE LET start == JsDiv(JsDiv(atoms[i].start, scale), Num(1000000))
           declared == JsDiv(JsDiv(atoms[i].end, scale), Num(1000000))
           next == IF chapters # <<>> THEN chapters[1].start ELSE Undef
           end == JsOr(declared, JsOr(next, JsOr(duration, Num(0))))
       IN ChapterLoop(atoms, i - 1, scale, duration,
                      <<[start |-> start, end |-> end, text |-> atoms[i].text,
                         language |-> atoms[i].language]>> \o chapters)

IsEdition(c) == c.id = "EditionEntry"
IsVisibleAtom(c) == c.id = "ChapterAtom" /\ ~Truthy(c.hidden)

\* getChapters, lines 117-146: "throw" when there is no edition to read
ChaptersOf(elem, children, scale, duration) ==
  IF elem.k # "tag" \/ children = <<>> THEN [k |-> "ok", list |-> <<>>]
  ELSE LET edition == DefaultEdition(SelectSeq(children, IsEdition))
       IN IF edition.k = "undef" THEN [k |-> "throw", list |-> <<>>]
          ELSE LET atoms == SelectSeq(edition.e.atoms, IsVisibleAtom)
               IN [k |-> "ok",
                   list |-> ChapterLoop(atoms, Len(atoms), scale, duration, <<>>)]

\* whether the loop reaches `await this.duration`: some visible atom has
\* neither a usable end of its own nor a successor with a usable start
AwaitsDuration(elem, children, scale) ==
  /\ elem.k = "tag"
  /\ children # <<>>
  /\ LET edition == DefaultEdition(SelectSeq(children, IsEdition))
     IN /\ edition.k = "tag"
        /\ LET atoms == SelectSeq(edition.e.atoms, IsVisibleAtom)
           IN \E i \in 1..Len(atoms) :
                /\ ~Truthy(JsDiv(JsDiv(atoms[i].end, scale), Num(1000000)))
                /\ \/ i = Len(atoms)
                   \/ ~Truthy(JsDiv(JsDiv(atoms[i + 1].start, scale), Num(1000000)))

(***************************************************************************)
(* The navigator specification: readSeekHeadTag and the getters            *)
(***************************************************************************)
\* getter calls made by the user of a session
MaxCalls == 2

Names == {"Info", "Tracks", "Chapters", "Attachments"}
Getters == {"getDuration", "getTracks", "getChapters", "getAttachments"}
TagOf(getter) ==
  CASE getter = "getDuration" -> "Info"
    [] getter = "getTracks" -> "Tracks"
    [] getter = "getChapters" -> "Chapters"
    [] getter = "getAttachments" -> "Attachments"

\* the children of the container's elements
NavInfo == <<[id |-> "TimecodeScale", data |-> Num(1000000)],
             [id |-> "Duration", data |-> Num(30)]>>
\* text subtitles on tracks 1 and 2, a non-text subtitle track, a video
\* track and a child that is no track entry
NavTracks == <<Entry(Num(17), CodecUTF8, 1, FALSE),
               Entry(Num(17), CodecVobSub, 4, FALSE),
               [Entry(Num(17), CodecASS, 5, FALSE) EXCEPT !.id = "Void"],
               Entry(Num(1), CodecVideo, 3, FALSE),
               Entry(Num(17), CodecASS, 2, TRUE)>>
Atom(start, end, hidden) ==
  [id |-> "ChapterAtom", start |-> start, end |-> end, hidden |-> hidden,
   text |-> StrVal(<<"c">>), language |-> StrVal(<<"e", "n", "g">>)]
Edition(flag, atoms) == [id |-> "EditionEntry", flagDefault |-> flag, atoms |-> atoms]
NavChapters == <<Edition(Undef, <<Atom(Num(0), Undef, Undef),
                                  Atom(Num(10000000), Undef, Undef),
                                  Atom(Num(20000000), Undef, Undef)>>)>>
NavAttachments == <<[filename |-> StrVal(<<"f">>), mimetype |-> StrVal(<<"m">>),
                     data |-> <<1, 2>>]>>
ChildrenOf(name) ==
  CASE name = "Info" -> NavInfo
    [] name = "Tracks" -> NavTracks
    [] name = "Chapters" -> NavChapters
    [] name = "Attachments" -> NavAttachments

\* the containers: at most one element is missing from the index or from
\* the data
Containers ==
  {[index |-> Names, data |-> Names]}
  \cup {[index |-> Names \ {n}, data |-> Names] : n \in Names}
  \cup {[index |-> Names, data |-> Names \ {n}] : n \in Names}

Pending == [state |-> "pending", value |-> Undef]

\* a call of a getter: the constructor's own (ctor) or the user's
\* after: the calls that had returned when this one was made; during: the
\* calls that were suspended in their scan at that moment
NewCall(getter, ctor, pc, after, during) ==
  [getter |-> getter, ctor |-> ctor, pc |-> pc, scan |-> 0, elem |-> NoElement,
   result |-> [k |-> "none", v |-> <<>>], after |-> after, during |-> during]

InitNav ==
  /\ destroyed = FALSE
  /\ stable = FALSE
  /\ timecodeScale = Num(1)
  /\ currentClusterTimecode = Null
  /\ subtitleTracks = <<>>
  /\ tracksState = "pending"
  /\ pass = NoPass
  /\ readLog = <<>>
  /\ yieldLog = <<>>
  /\ totalReads = 0
  /\ pending = <<>>
  /\ decoded = <<>>
  /\ events = <<>>
  /\ failures = {}
  /\ sh = ShIdle
  /\ \E c \in Containers :
       nav = [phase |-> "run",
              container |-> c,
              seekHead |-> "pending",
              tagCache |-> [n \in Names |-> NoElement],
              scans |-> [n \in Names |-> 0],
              duration |-> Pending,
              \* the constructor has called getDuration() and getTracks()
              calls |-> <<NewCall("getDuration", TRUE, "start", {}, {}),
                          NewCall("getTracks", TRUE, "start", {}, {})>>]

navFrame ==
  UNCHANGED <<destroyed, stable, timecodeScale, currentClusterTimecode, pass, readLog,
              yieldLog, totalReads, pending, decoded, events, failures, sh>>

CallIds == 1..Len(nav.calls)
Memoized == {"getDuration", "getTracks"}
\* the constructor's call of a getter
CtorCall(getter) ==
  CHOOSE i \in CallIds : nav.calls[i].ctor /\ nav.calls[i].getter = getter

\* this.seekHead settles with the index of the container
ResolveSeekHead ==
  /\ nav.phase = "run"
  /\ nav.seekHead = "pending"
  /\ nav' = [nav EXCEPT !.seekHead = "resolved"]
  /\ UNCHANGED <<subtitleTracks, tracksState>>
  /\ navFrame

\* the user calls a getter; getDuration and getTracks find the promise the
\* constructor stored (lines 69 and 153), the others enter readSeekHeadTag
UserCall(getter) ==
  /\ nav.phase = "run"
  /\ Len(nav.calls) < 2 + MaxCalls
  /\ nav' = [nav EXCEPT !.calls =
               Append(@, NewCall(getter, FALSE,
                                 IF getter \in Memoized THEN "memo" ELSE "start",
                                 {i \in CallIds : nav.calls[i].pc = "done"},
                                 {i \in CallIds : nav.calls[i].pc = "scanning"}))]
  /\ UNCHANGED <<subtitleTracks, tracksState>>
  /\ navFrame

\* `return await this.tracks` / `return this.duration`: the stored promise's
\* value, once it has one
MemoDone(i) ==
  /\ nav.phase = "run"
  /\ nav.calls[i].pc = "memo"
  /\ LET c == nav.calls[CtorCall(nav.calls[i].getter)]
     IN /\ c.pc = "done"
        /\ nav' = [nav EXCEPT !.calls[i].pc = "done", !.calls[i].result = c.result]
  /\ UNCHANGED <<subtitleTracks, tracksState>>
  /\ navFrame

\* readSeekHeadTag after `await this.seekHead`, lines 123-125 and 133: scan
\* the file when the name is not cached and the index lists it, else return
\* what the cache holds
Lookup(i) ==
  /\ nav.phase = "run"
  /\ nav.calls[i].pc = "start"
  /\ nav.seekHead = "resolved"
  /\ LET tag == TagOf(nav.calls[i].getter)
     IN IF nav.tagCache[tag].k # "tag" /\ tag \in nav.container.index
        THEN nav' = [nav EXCEPT !.scans[tag] = @ + 1,
                                !.calls[i].scan = nav.scans[tag] + 1,
                                !.calls[i].pc = "scanning"]
        ELSE nav' = [nav EXCEPT !.calls[i].elem = nav.tagCache[tag],
                                !.calls[i].pc = "got"]
  /\ UNCHANGED <<subtitleTracks, tracksState>>
  /\ navFrame

\* readUntilTag returns, lines 126-131: null when the file holds no such
\* element, else the element this scan decoded, which is cached
ScanDone(i) ==
  /\ nav.phase = "run"
  /\ nav.calls[i].pc = "scanning"
  /\ LET tag == TagOf(nav.calls[i].getter)
         child == Element(tag, nav.calls[i].scan)
     IN IF tag \in nav.container.data
        THEN nav' = [nav EXCEPT !.tagCache[tag] = child,
                                !.calls[i].elem = child,
                                !.calls[i].pc = "got"]
        ELSE nav' = [nav EXCEPT !.calls[i].elem = NullElement,
                                !.calls[i].pc = "got"]
  /\ UNCHANGED <<subtitleTracks, tracksState>>
  /\ navFrame

\* the Children of an element readSeekHeadTag returned
ElemChildren(elem) == IF elem.k = "tag" THEN ChildrenOf(elem.name) ELSE <<>>

\* getDuration, lines 156-158
FinishDuration(i) ==
  /\ nav.phase = "run"
  /\ nav.calls[i].pc = "got"
  /\ nav.calls[i].getter = "getDuration"
  /\ LET elem == nav.calls[i].elem
         value == DurationOf(elem, ElemChildren(elem))
     IN nav' = [nav EXCEPT !.calls[i].pc = "done",
                           !.calls[i].result = [k |-> "ok", v |-> value],
                           !.duration = IF nav.calls[i].ctor
                                        THEN [state |-> "resolved", value |-> value]
                                        ELSE @]
  /\ UNCHANGED <<subtitleTracks, tracksState>>
  /\ navFrame

\* getTracks, lines 72-109
FinishTracks(i) ==
  /\ nav.phase = "run"
  /\ nav.calls[i].pc = "got"
  /\ nav.calls[i].getter = "getTracks"
  /\ LET elem == nav.calls[i].elem
     IN /\ subtitleTracks' = TracksOf(elem, ElemChildren(elem), subtitleTracks)
        /\ nav' = [nav EXCEPT !.calls[i].pc = "done",
                              !.calls[i].result =
                                 [k |-> "ok",
                                  v |-> TracksResult(elem, ElemChildren(elem),
                                                     subtitleTracks)]]
  /\ tracksState' = IF nav.calls[i].ctor THEN "resolved" ELSE tracksState
  /\ navFrame

\* getAttachments, lines 58-62
FinishAttachments(i) ==
  /\ nav.phase = "run"
  /\ nav.calls[i].pc = "got"
  /\ nav.calls[i].getter = "getAttachments"
  /\ LET elem == nav.calls[i].elem
     IN nav' = [nav EXCEPT !.calls[i].pc = "done",
                           !.calls[i].result =
                              [k |-> "ok", v |-> AttachmentsOf(elem, ElemChildren(elem))]]
  /\ UNCHANGED <<subtitleTracks, tracksState>>
  /\ navFrame

\* getChapters, lines 115-146; this.timecodeScale is truthy in every state
\* of this specification, so line 115 reads nothing. The loop waits for
\* this.duration where it reaches it.
FinishChapters(i) ==
  /\ nav.phase = "run"
  /\ nav.calls[i].pc = "got"
  /\ nav.calls[i].getter = "getChapters"
  /\ Truthy(timecodeScale)
  /\ LET elem == nav.calls[i].elem
         children == ElemChildren(elem)
     IN /\ AwaitsDuration(elem, children, timecodeScale)
             => nav.duration.state = "resolved"
        /\ LET r == ChaptersOf(elem, children, timecodeScale, nav.duration.value)
           IN nav' = [nav EXCEPT !.calls[i].pc = "done",
                                 !.calls[i].result = [k |-> r.k, v |-> r.list]]
  /\ UNCHANGED <<subtitleTracks, tracksState>>
  /\ navFrame

NextNav ==
  \/ ResolveSeekHead
  \/ \E getter \in Getters : UserCall(getter)
  \/ \E i \in CallIds : MemoDone(i)
  \/ \E i \in CallIds : Lookup(i)
  \/ \E i \in CallIds : ScanDone(i)
  \/ \E i \in CallIds : FinishDuration(i)
  \/ \E i \in CallIds : FinishTracks(i)
  \/ \E i \in CallIds : FinishAttachments(i)
  \/ \E i \in CallIds : FinishChapters(i)

SpecNav == InitNav /\ [][NextNav]_vars

(***************************************************************************)
(* Claims about the navigator                                              *)
(***************************************************************************)
\* a call has returned from readSeekHeadTag
Returned(i) == nav.calls[i].pc \in {"got", "done"}
\* call j entered readSeekHeadTag for the name of call i while i was
\* suspended in its scan
Overlaps(i, j) ==
  /\ i \in nav.calls[j].during
  /\ TagOf(nav.calls[i].getter) = TagOf(nav.calls[j].getter)
  /\ nav.calls[j].getter \notin Memoized

\* C1: fetch-by-name calls for an uncached name that overlap in time cause
\* one scan of the source, and every caller receives the same element: a
\* call that starts while another is suspended in its scan for the same name
\* starts no scan of its own and returns the element the other returns.
C1_SingleFlight ==
  nav.phase = "run" =>
    \A i, j \in CallIds :
      Overlaps(i, j) =>
        /\ nav.calls[j].scan = 0
        /\ (Returned(i) /\ Returned(j)) => nav.calls[i].elem = nav.calls[j].elem

\* two calls of one getter made in sequence: the second is made after the
\* first has returned
InSequence(i, j) ==
  /\ i < j
  /\ ~nav.calls[i].ctor
  /\ ~nav.calls[j].ctor
  /\ nav.calls[i].getter = nav.calls[j].getter
  /\ i \in nav.calls[j].after
ScansOf(i) == IF nav.calls[i].scan # 0 THEN 1 ELSE 0

\* C2: calling a getter twice in sequence returns equal results and triggers
\* at most one scan of the source for the getter's element, also where the
\* element is listed in the index and absent from the data.
C2_Idempotent ==
  nav.phase = "run" =>
    \A i, j \in CallIds :
      InSequence(i, j) =>
        /\ ScansOf(i) + ScansOf(j) <= 1
        /\ nav.calls[j].pc = "done" => nav.calls[j].result = nav.calls[i].result

\* the entries of the container's track list with the subtitle type and a
\* text-subtitle codec
Qualifying ==
  {i \in 1..Len(NavTracks) : NavTracks[i].id = "TrackEntry" /\ IsTextSubtitle(NavTracks[i])}
QualifyingNumbers == {NavTracks[i].number : i \in Qualifying}

\* C9: for a container whose track list holds N text-subtitle entries with
\* distinct numbers, getTracks() returns exactly N descriptors with distinct
\* numbers and the registry holds exactly those N keys; no other entry
\* appears in either.
C9_TracksComplete ==
  nav.phase = "run" =>
    \A i \in CallIds :
      (/\ nav.calls[i].getter = "getTracks"
       /\ nav.calls[i].pc = "done"
       /\ "Tracks" \in nav.container.data) =>
        /\ Len(nav.calls[i].result.v) = Cardinality(Qualifying)
        /\ MapKeys(nav.calls[i].result.v) = QualifyingNumbers
        /\ MapKeys(subtitleTracks) = QualifyingNumbers

(***************************************************************************)
(* The index specification: readSeekHead                                   *)
(*                                                                         *)
(* The file holds index elements (SeekHead) at byte positions; each is the *)
(* sequence of its Seek children, a name and the SeekPosition element read *)
(* for it.  An element object is [k |-> "obj", data |-> n].                *)
(* A resolved index is a function from the names to an element object or   *)
(* Undef.                                                                  *)
(***************************************************************************)
IndexNames == {"SeekHead", "Tracks", "Cues"}
Obj(n) == [k |-> "obj", data |-> n]
Seek(name, position) == [name |-> name, position |-> Obj(position)]
SeekHeadAt(pos, seeks) == [pos |-> pos, seeks |-> seeks]
EmptyIndex == [n \in IndexNames |-> Undef]
NullIndex == [k |-> "null"]

\* lines 62-68: the entries in order, a later one replacing an earlier one
RECURSIVE Transform(_, _)
Transform(seeks, head) ==
  IF seeks = <<>> THEN head
  ELSE Transform(Tail(seeks), [head EXCEPT ![Head(seeks).name] = Head(seeks).position])

\* line 76: { ...secondSeekHead, ...transformedHead }; spreading null adds
\* nothing
Merge(secondSeekHead, transformedHead) ==
  IF secondSeekHead = NullIndex THEN transformedHead
  ELSE [n \in IndexNames |->
          IF transformedHead[n] # Undef THEN transformedHead[n] ELSE secondSeekHead[n]]

\* file.slice(start): the start is converted to an integer, NaN to 0
SliceStart(start) ==
  LET n == ToNumber(start)
  IN IF n.k = "num" /\ n.v >= 0 THEN n.v ELSE 0

\* readUntilTag on a stream from `start`: the first index element at or after
\* it, if any
HeadsFrom(file, start) == {i \in 1..Len(file) : file[i].pos >= start}
FirstHeadFrom(file, start) ==
  CHOOSE i \in HeadsFrom(file, start) :
    \A j \in HeadsFrom(file, start) : file[i].pos <= file[j].pos

\* the files: no index element, one, or two, the first of which may
\* reference the second
TracksSeeks == {<<>>, <<Seek("Tracks", 20)>>, <<Seek("Tracks", 30)>>,
                <<Seek("Tracks", 20), Seek("Tracks", 30)>>}
CuesSeeks == {<<>>, <<Seek("Cues", 40)>>}
SecondAt == {<<>>, <<Seek("SeekHead", 9)>>}
Files ==
  {<<>>}
  \cup {<<SeekHeadAt(3, t \o c)>> : t \in TracksSeeks, c \in CuesSeeks}
  \cup {<<SeekHeadAt(3, r \o t1 \o c1), SeekHeadAt(9, t2 \o c2)>> :
          r \in SecondAt, t1 \in TracksSeeks, c1 \in CuesSeeks,
          t2 \in TracksSeeks, c2 \in CuesSeeks}

\* the constructor, part_000 lines 48-49: getSegment() is suspended in its
\* readUntilTag and getSeekHead() at `await this.segment`
InitSeekHead ==
  /\ destroyed = FALSE
  /\ stable = FALSE
  /\ timecodeScale = Num(1)
  /\ currentClusterTimecode = Null
  /\ subtitleTracks = <<>>
  /\ tracksState = "pending"
  /\ pass = NoPass
  /\ readLog = <<>>
  /\ yieldLog = <<>>
  /\ totalReads = 0
  /\ pending = <<>>
  /\ decoded = <<>>
  /\ events = <<>>
  /\ failures = {}
  /\ nav = NavIdle
  /\ \E f \in Files, marker \in BOOLEAN :
       sh = [phase |-> "segment",
             file |-> f,
             \* the file holds a Segment element
             hasSegment |-> marker,
             \* the promise this.segment
             segment |-> [state |-> "pending", value |-> "undef"],
             start |-> SliceStart(Undef),
             segmentStart |-> Num(0),
             \* the transformedHead of each suspended caller, innermost last
             stack |-> <<>>,
             tag |-> 0,
             value |-> NullIndex]

shFrame ==
  UNCHANGED <<stable, timecodeScale, currentClusterTimecode, subtitleTracks,
              tracksState, pass, readLog, yieldLog, totalReads, pending, decoded,
              events, failures, nav>>

\* a caller suspends at line 75.  { ...x, ...h } applied twice is the same
\* as applied once, so a caller whose transformedHead equals that of the
\* caller below it is not recorded again: a recursion that re-reads one
\* index element is a cycle of states.
Push(stack, head) ==
  IF stack # <<>> /\ stack[Len(stack)] = head THEN stack ELSE Append(stack, head)

\* getSegment, lines 101-104: readUntilTag returns the Segment element, or
\* null at the end of the file, and then getSegment returns undefined
GetSegment ==
  /\ sh.phase = "segment"
  /\ sh.segment.state = "pending"
  /\ sh' = [sh EXCEPT !.segment =
                         [state |-> "fulfilled",
                          value |-> IF sh.hasSegment THEN "tag" ELSE "undef"]]
  /\ UNCHANGED destroyed
  /\ shFrame

\* getSeekHead, lines 110-113: after `await this.segment`,
\* readSeekHead(this.getFileStream(), 0) suspends in its readUntilTag
GetSeekHead ==
  /\ sh.phase = "segment"
  /\ sh.segment.state = "fulfilled"
  /\ sh' = [sh EXCEPT !.phase = "reading", !.start = SliceStart(Undef)]
  /\ UNCHANGED destroyed
  /\ shFrame

\* readUntilTag, lines 45-50: the stream delivers the file from `start` and
\* the decoder finds the first index element in it, or none (0)
ReadUntilTag ==
  /\ sh.phase = "reading"
  /\ sh' = [sh EXCEPT !.phase = "read",
                      !.tag = IF HeadsFrom(sh.file, sh.start) = {} THEN 0
                              ELSE FirstHeadFrom(sh.file, sh.start)]
  /\ UNCHANGED destroyed
  /\ shFrame

\* readSeekHead resumes with the element, lines 59-79
ReadSeekHead ==
  /\ sh.phase = "read"
  /\ IF destroyed
     THEN sh' = [sh EXCEPT !.phase = "returning", !.value = NullIndex]
     ELSE IF sh.tag = 0
     THEN sh' = [sh EXCEPT !.phase = "rejected"]
     ELSE LET seekHead == sh.file[sh.tag]
              transformedHead == Transform(seekHead.seeks, EmptyIndex)
          IN IF transformedHead["SeekHead"] # Undef
             THEN sh' = [sh EXCEPT
                           !.phase = "reading",
                           !.stack = Push(@, transformedHead),
                           !.start = SliceStart(JsAdd(transformedHead["SeekHead"],
                                                      sh.segmentStart))]
             ELSE sh' = [sh EXCEPT !.phase = "returning", !.value = transformedHead]
  /\ UNCHANGED destroyed
  /\ shFrame

\* a readSeekHead call returns: to the caller suspended at line 75, which
\* merges, or to getSeekHead
Unwind ==
  /\ sh.phase = "returning"
  /\ IF sh.stack = <<>>
     THEN sh' = [sh EXCEPT !.phase = "resolved"]
     ELSE sh' = [sh EXCEPT !.stack = SubSeq(@, 1, Len(@) - 1),
                           !.value = Merge(sh.value, sh.stack[Len(sh.stack)])]
  /\ UNCHANGED destroyed
  /\ shFrame

\* destroy() while the index is being resolved
DestroySeekHead ==
  /\ sh.phase \in {"segment", "reading", "read", "returning"}
  /\ destroyed = FALSE
  /\ destroyed' = TRUE
  /\ UNCHANGED sh
  /\ shFrame

NextSeekHead ==
  \/ GetSegment
  \/ GetSeekHead
  \/ ReadUntilTag
  \/ ReadSeekHead
  \/ Unwind
  \/ DestroySeekHead

\* a pending read completes and a settled promise's continuation runs
SpecSeekHead ==
  /\ InitSeekHead
  /\ [][NextSeekHead]_vars
  /\ WF_vars(GetSegment)
  /\ WF_vars(GetSeekHead)
  /\ WF_vars(ReadUntilTag)
  /\ WF_vars(ReadSeekHead)
  /\ WF_vars(Unwind)

\* the file's first index element references its second, and both hold an
\* entry for Tracks with different offsets
FirstIndex == Transform(sh.file[1].seeks, EmptyIndex)
SecondIndex == Transform(sh.file[2].seeks, EmptyIndex)
Chained ==
  /\ sh.phase # "idle"
  /\ Len(sh.file) = 2
  /\ FirstIndex["SeekHead"] = Obj(sh.file[2].pos)
  /\ FirstIndex["Tracks"] # Undef
  /\ SecondIndex["Tracks"] # Undef
  /\ FirstIndex["Tracks"] # SecondIndex["Tracks"]
\* the resolved index has the first index's entries, and the names of the
\* second
Precedence ==
  /\ Chained
  /\ sh.phase = "resolved"
  /\ sh.value # NullIndex
  /\ \A n \in IndexNames :
       /\ FirstIndex[n] # Undef => sh.value[n] = FirstIndex[n]
       /\ SecondIndex[n] # Undef => sh.value[n] # Undef

\* C10: when the first index references a second and both hold an entry for
\* one name with different offsets, the index resolves to one that maps the
\* name to the first index's offset and holds the names found only in the
\* second (unless the session is destroyed meanwhile).
C10_IndexPrecedence == [](Chained => <>(Precedence \/ destroyed))

\* C11: if the input ends without any segment marker, locating the segment
\* fails with an error instead of completing normally, and the index
\* resolution the getters depend on does not succeed afterwards.
C11_MissingSegmentFails ==
  (sh.phase # "idle" /\ ~sh.hasSegment) =>
    /\ sh.segment.state \in {"pending", "rejected"}
    /\ sh.phase # "resolved"

(***************************************************************************)
(* The chapter specification: getChapters on the Chapters element it was   *)
(* handed, over editions and atoms drawn from small sets, with             *)
(* this.duration settling before or while the loop waits for it.           *)
(***************************************************************************)
\* atoms of the edition under test
MaxAtoms == 3

\* ChapterTimeStart / ChapterTimeEnd in nanoseconds, ChapterFlagHidden
AtomKinds ==
  {Atom(start, end, hidden) :
     start \in {Num(0), Num(10000000), Num(20000000)},
     end \in {Undef, Num(15000000)},
     hidden \in {Undef, Num(1)}}
AtomLists == UNION {[1..n -> AtomKinds] : n \in 0..MaxAtoms}

\* EditionFlagDefault: absent, 0 or 1
Flags == {Undef, Num(0), Num(1)}
\* the k-th of three editions: one atom, starting at 10 k
EditionNo(k, flag) == Edition(flag, <<Atom(Num(k * 10000000), Undef, Undef)>>)
OtherChild == [id |-> "Void"]
ChapterChildren ==
  {<<Edition(flag, atoms)>> : flag \in {Undef, Num(1)}, atoms \in AtomLists}
  \cup {<<EditionNo(1, f1), EditionNo(2, f2), EditionNo(3, f3)>> :
          f1 \in Flags, f2 \in Flags, f3 \in Flags}
  \cup {<<OtherChild, EditionNo(1, f1), EditionNo(2, f2)>> : f1 \in Flags, f2 \in Flags}
  \* without an EditionEntry: no children, or only others
  \cup {<<>>, <<OtherChild>>, <<OtherChild, OtherChild>>}

\* getChapters has its Chapters element (line 113) and this.timecodeScale is
\* 1; this.duration is pending
InitChapters ==
  /\ destroyed = FALSE
  /\ stable = FALSE
  /\ timecodeScale = Num(1)
  /\ currentClusterTimecode = Null
  /\ subtitleTracks = <<>>
  /\ tracksState = "pending"
  /\ pass = NoPass
  /\ readLog = <<>>
  /\ yieldLog = <<>>
  /\ totalReads = 0
  /\ pending = <<>>
  /\ decoded = <<>>
  /\ events = <<>>
  /\ failures = {}
  /\ sh = ShIdle
  \* what readSeekHeadTag('Chapters') handed back: the element with its
  \* children, or nothing (undefined has no children)
  /\ \E elem \in {Element("Chapters", 1), Undef}, children \in ChapterChildren,
        total \in {Undef, Num(30)} :
       /\ elem = Undef => children = <<>>
       /\ nav = [phase |-> "chapters",
              elem |-> elem,
              children |-> children,
              \* what getDuration will return
              total |-> total,
              duration |-> Pending,
              pc |-> "got",
              result |-> [k |-> "none", list |-> <<>>]]

chaptersFrame ==
  UNCHANGED <<destroyed, stable, timecodeScale, currentClusterTimecode,
              subtitleTracks, tracksState, pass, readLog, yieldLog, totalReads,
              pending, decoded, events, failures, sh>>

\* the constructor's getDuration() returns: this.duration is fulfilled
DurationSettles ==
  /\ nav.phase = "chapters"
  /\ nav.duration.state = "pending"
  /\ nav' = [nav EXCEPT !.duration = [state |-> "resolved", value |-> nav.total]]
  /\ chaptersFrame

\* getChapters, lines 117-146, waiting for this.duration where the loop
\* reaches it
ChaptersReturn ==
  /\ nav.phase = "chapters"
  /\ nav.pc = "got"
  /\ LET elem == nav.elem
     IN /\ AwaitsDuration(elem, nav.children, timecodeScale)
             => nav.duration.state = "resolved"
        /\ nav' = [nav EXCEPT
                     !.pc = "done",
                     !.result = ChaptersOf(elem, nav.children, timecodeScale,
                                           nav.duration.value)]
  /\ chaptersFrame

NextChapters ==
  \/ DurationSettles
  \/ ChaptersReturn

SpecChapters == InitChapters /\ [][NextChapters]_vars

(***************************************************************************)
(* Claims about getChapters                                                *)
(***************************************************************************)
ChaptersDone == nav.phase = "chapters" /\ nav.pc = "done" /\ nav.result.k = "ok"
EditionsOf(children) == SelectSeq(children, IsEdition)
\* the non-hidden atoms of the only edition
OnlyEditionAtoms == SelectSeq(EditionsOf(nav.children)[1].atoms, IsVisibleAtom)
\* the container's total duration, 0 if unknown
TotalOrZero == IF nav.total.k = "num" THEN nav.total ELSE Num(0)

\* C12: taking the non-hidden atoms of the chosen edition in declaration
\* order, every atom with no declared end gets the start of the next
\* non-hidden atom as its end, and the last one the container's total
\* duration (0 if unknown).
C12_EndFallback ==
  (ChaptersDone /\ Len(EditionsOf(nav.children)) = 1) =>
    /\ Len(nav.result.list) = Len(OnlyEditionAtoms)
    /\ \A i \in 1..Len(OnlyEditionAtoms) :
         OnlyEditionAtoms[i].end = Undef =>
           nav.result.list[i].end =
             IF i < Len(OnlyEditionAtoms) THEN nav.result.list[i + 1].start
             ELSE TotalOrZero

\* the edition the claim names: the first whose default flag is truthy, else
\* the first
Flagged(editions) == {i \in 1..Len(editions) : editions[i].flagDefault \notin {Undef, Num(0)}}
NamedEdition(editions) ==
  IF Flagged(editions) # {}
  THEN editions[CHOOSE i \in Flagged(editions) : \A j \in Flagged(editions) : i <= j]
  ELSE editions[1]

\* C13: getChapters() resolves the chapters of the first edition whose
\* default flag is truthy, and of the first edition when none is flagged.
C13_DefaultEdition ==
  (ChaptersDone /\ EditionsOf(nav.children) # <<>>) =>
    LET atoms == SelectSeq(NamedEdition(EditionsOf(nav.children)).atoms, IsVisibleAtom)
    IN nav.result.list =
         ChapterLoop(atoms, Len(atoms), timecodeScale, nav.duration.value, <<>>)
\* three editions, only the second flagged: the second's chapter, at 20
C13_Witness ==
  /\ ChaptersDone
  /\ nav.children = <<EditionNo(1, Undef), EditionNo(2, Num(1)), EditionNo(3, Undef)>>
  /\ Len(nav.result.list) = 1
  /\ nav.result.list[1].start = Num(20)

\* C14: the list returned by getChapters() is ordered by start time
\* ascending.
C14_AscendingStarts ==
  ChaptersDone =>
    \A i, j \in 1..Len(nav.result.list) :
      i < j => nav.result.list[i].start.v <= nav.result.list[j].start.v

\* the Chapters element getChapters was handed has no EditionEntry child
NoEditions == nav.phase = "chapters" /\ EditionsOf(nav.children) = <<>>

\* C21: getChapters() returns an empty list and does not throw whenever the
\* container has no edition entries: when the Chapters element is missing
\* or empty, and when it has children none of which is an edition entry.
C21_NoEditionsEmpty ==
  (nav.phase = "chapters" /\ nav.pc = "done" /\ NoEditions) =>
    nav.result = [k |-> "ok", list |-> <<>>]

(***************************************************************************)
(* The block specification: block groups handed to handleBlockGroup one    *)
(* after the other, over payload texts and track numbers drawn from small  *)
(* sets, with this.tracks settling before or after the calls.              *)
(***************************************************************************)
\* comma-separated fields of a payload text
MaxFields == 10
\* block groups decoded over the session
MaxGroups == 2

\* the bytes of a text
text2arr(text) ==
  [i \in 1..Len(text) |-> 31 + CHOOSE c \in 1..Len(Ascii) : Ascii[c] = text[i]]

\* n fields "a", "b", ... joined with commas
FieldsText(n) == Join([i \in 1..n |-> <<Ascii[65 + i]>>], ",")
\* 0,1,Default,,0,0,0,,Hello, world
ExampleText ==
  <<"0", ",", "1", ",", "D", "e", "f", "a", "u", "l", "t", ",", ",", "0", ",", "0",
    ",", "0", ",", ",", "H", "e", "l", "l", "o", ",", " ", "w", "o", "r", "l", "d">>
ScriptTexts == {FieldsText(n) : n \in 0..MaxFields} \cup {ExampleText}

CodecSSA == StrVal(<<"S", "_", "T", "E", "X", "T", "/", "S", "S", "A">>)
\* text subtitles on tracks 1 (utf8), 2 (ass) and 3 (ssa); video on track 4
\* and a non-text subtitle track 5
BlockTracks == <<Entry(Num(17), CodecUTF8, 1, FALSE),
                 Entry(Num(17), CodecASS, 2, FALSE),
                 Entry(Num(17), CodecSSA, 3, FALSE),
                 Entry(Num(1), CodecVideo, 4, FALSE),
                 Entry(Num(17), CodecVobSub, 5, FALSE)>>

\* a BlockGroup element as the decoder hands it over
Group(track, text) ==
  Tag("BlockGroup", 0,
      [present |-> TRUE, track |-> track, value |-> 50, payload |-> text2arr(text)],
      Num(40))
BlockGroups ==
  {Group(track, text) : track \in {2, 3}, text \in ScriptTexts}
  \cup {Group(track, FieldsText(2)) : track \in {1, 4, 5, 9}}
  \cup {Tag("BlockGroup", 0, NoBlock, Num(40))}

InitBlock ==
  /\ destroyed = FALSE
  /\ stable = TRUE
  /\ timecodeScale = Num(1)
  /\ currentClusterTimecode = Num(1000)
  /\ subtitleTracks = <<>>
  /\ tracksState = "pending"
  /\ pass = NoPass
  /\ readLog = <<>>
  /\ yieldLog = <<>>
  /\ totalReads = 0
  /\ pending = <<>>
  /\ decoded = <<>>
  /\ events = <<>>
  /\ failures = {}
  /\ nav = NavIdle
  /\ sh = ShIdle

\* the decoder hands a block group to tagMap (line 228): handleBlockGroup is
\* called and suspends at `await this.tracks`
DecodeGroup(group) ==
  /\ Len(decoded) < MaxGroups
  /\ LET st == ApplyTag([stable |-> TRUE, scale |-> timecodeScale,
                         clusterTimecode |-> currentClusterTimecode,
                         thisScale |-> timecodeScale,
                         thisClusterTimecode |-> currentClusterTimecode,
                         calls |-> <<>>], group)
     IN /\ decoded' = Append(decoded,
                             [call |-> st.calls[1], chunkNo |-> 1, passNo |-> 1,
                              suspended |-> tracksState = "pending"])
        /\ pending' = Append(pending, Len(decoded) + 1)
  /\ UNCHANGED <<destroyed, stable, timecodeScale, currentClusterTimecode,
                 subtitleTracks, tracksState, pass, readLog, yieldLog, totalReads,
                 events, failures, nav, sh>>

\* the promise this.tracks is fulfilled: getTracks has filled the registry
ResolveBlockTracks ==
  /\ tracksState = "pending"
  /\ tracksState' = "resolved"
  /\ subtitleTracks' = CollectTracks(BlockTracks, subtitleTracks)
  /\ UNCHANGED <<destroyed, stable, timecodeScale, currentClusterTimecode, pass,
                 readLog, yieldLog, totalReads, pending, decoded, events, failures,
                 nav, sh>>

NextBlock ==
  \/ \E group \in BlockGroups : DecodeGroup(group)
  \/ ResolveBlockTracks
  \/ RunHandler

SpecBlock == InitBlock /\ [][NextBlock]_vars

(***************************************************************************)
(* Claims about handleBlockGroup                                           *)
(***************************************************************************)
\* the comma-fields of the payload of the block an event comes from
FieldsOf(e) == Split(arr2text(decoded[e.origin].call.tag.block.payload), ",")
TypeOf(e) == MapGet(subtitleTracks, Num(e.track)).type
\* the text from comma-field n (1-based) on, with its commas
RECURSIVE TextFrom(_, _)
TextFrom(values, n) ==
  IF n > Len(values) THEN <<>>
  ELSE IF n = Len(values) THEN values[n]
  ELSE values[n] \o <<",">> \o TextFrom(values, n + 1)
\* comma-field n (1-based), undefined past the last
FieldNo(values, n) == IF n <= Len(values) THEN StrVal(values[n]) ELSE StrUndef

\* C15: on an ass or ssa track the payload text is split on commas; style,
\* name, marginL, marginR, marginV and effect are comma-fields 3 to 8, layer
\* is comma-field 2 for ass and is not populated for ssa, the read-order
\* field is never populated, and the final text is fields 9 onward rejoined
\* with commas.
C15_ScriptFields ==
  \A n \in 1..Len(events) :
    LET e == events[n]
        values == FieldsOf(e)
        fields == e.subtitle.fields
    IN TypeOf(e) \in {<<"a", "s", "s">>, <<"s", "s", "a">>} =>
         /\ "readOrder" \notin DOMAIN fields
         /\ "text" \notin DOMAIN fields
         /\ IF TypeOf(e) = <<"a", "s", "s">>
            THEN "layer" \in DOMAIN fields /\ fields["layer"] = FieldNo(values, 2)
            ELSE "layer" \notin DOMAIN fields
         /\ fields["style"] = FieldNo(values, 3)
         /\ fields["name"] = FieldNo(values, 4)
         /\ fields["marginL"] = FieldNo(values, 5)
         /\ fields["marginR"] = FieldNo(values, 6)
         /\ fields["marginV"] = FieldNo(values, 7)
         /\ fields["effect"] = FieldNo(values, 8)
         /\ e.subtitle.text = TextFrom(values, 9)
\* the example text on the ass track and ten fields on the ssa track
C15_Witness ==
  /\ \E n \in 1..Len(events) :
       /\ events[n].track = 2
       /\ decoded[events[n].origin].call.tag.block.payload = text2arr(ExampleText)
       /\ events[n].subtitle.fields["style"] = StrVal(<<"D", "e", "f", "a", "u", "l", "t">>)
       /\ events[n].subtitle.fields["layer"] = StrVal(<<"1">>)
       /\ events[n].subtitle.text =
            <<"H", "e", "l", "l", "o", ",", " ", "w", "o", "r", "l", "d">>
  /\ \E n \in 1..Len(events) :
       /\ events[n].track = 3
       /\ decoded[events[n].origin].call.tag.block.payload = text2arr(FieldsText(10))
       /\ events[n].subtitle.fields["style"] = StrVal(<<"c">>)
       /\ events[n].subtitle.text = <<"i", ",", "j">>

\* the block groups whose handler has run
HandledGroups == {n \in 1..Len(decoded) : \A i \in 1..Len(pending) : pending[i] # n}
\* a group without a block, or with a block on a track the registry lacks
Foreign(n) ==
  LET block == decoded[n].call.tag.block
  IN ~block.present \/ ~MapHas(subtitleTracks, Num(block.track))

InitSync ==
  /\ destroyed = FALSE
  /\ stable = FALSE
  /\ timecodeScale = Num(1)
  /\ currentClusterTimecode = Null
  /\ subtitleTracks = <<>>
  /\ tracksState = "pending"
  /\ pass = NoPass
  /\ readLog = <<>>
  /\ yieldLog = <<>>
  /\ totalReads = 0
  /\ pending = <<>>
  /\ decoded = <<>>
  /\ events = <<>>
  /\ failures = {}
  /\ sh = ShIdle
  /\ \E b \in BOOLEAN : nav = [phase |-> "file", iterable |-> b]

\* parseFile() on a file that cannot be iterated: line 260 sets this.stable,
\* then getFileStream throws at line 262 before parseStream is called
ParseFileFails ==
  /\ ~Iterable
  /\ pass.pc \in {"none", "done"}
  /\ stable' = TRUE
  /\ stable' # stable
  /\ UNCHANGED <<destroyed, timecodeScale, currentClusterTimecode, subtitleTracks,
                 tracksState, pass, readLog, yieldLog, totalReads, pending, decoded,
                 events, failures, nav, sh>>

NextSync ==
  \/ NextStream
  \/ ParseFileFails

SpecSync == InitSync /\ [][NextSync]_vars

\* C16: a pass started by parseFile begins stable and every other pass
\* begins unstable, whatever came before it; within a pass the only
\* transition is from unstable to stable.
C16_SyncStateMachine ==
  [][/\ pass'.no # pass.no => pass'.stable = (pass'.kind = "file")
     /\ pass'.no = pass.no => (pass.stable => pass'.stable)]_vars

\* the block groups of one contiguous decode of a chunk from position p
GroupsFrom(chunk, p) ==
  Len(SelectSeq(ParseTags(Slice(chunk, p), 0), LAMBDA t : t.id = "BlockGroup"))
\* the most block groups a single decode of the chunk can hold: from its
\* start, or from one of its trustworthy marker positions
GroupsIn(chunk) ==
  CHOOSE m \in 0..Len(chunk) :
    /\ \E p \in {0} \cup TrustedPositions(chunk) : m = GroupsFrom(chunk, p)
    /\ \A p \in {0} \cup TrustedPositions(chunk) : m >= GroupsFrom(chunk, p)
\* the handleBlockGroup calls made for the k-th chunk read
DispatchedFor(k) == {n \in 1..Len(decoded) : decoded[n].chunkNo = k}

\* C17: once a trustworthy match has made the pass stable, the bytes from
\* the match on are decoded once, as one contiguous run, with no further
\* scanning of the rest of the chunk: each block group of a chunk is
\* dispatched to handleBlockGroup at most once, also when the chunk holds
\* more than one cluster marker.
C17_DecodedOnce ==
  \A k \in 1..Len(readLog) :
    Cardinality(DispatchedFor(k)) <= GroupsIn(readLog[k])

\* the block an event comes from, and the session's timing fields at the
\* moment its block group was decoded
OriginOf(e) == decoded[e.origin].call

\* C18: the time and duration of an event are computed from the
\* timecodeScale and the cluster timecode that were current when its block
\* group was decoded, whatever was decoded while its handler was suspended.
C18_TimingAtDecode ==
  \A i \in 1..Len(events) :
    LET c == OriginOf(events[i])
    IN /\ events[i].subtitle.time =
            JsMul(JsAdd(Num(c.tag.block.value), c.thisClusterTimecode), c.thisScale)
       /\ events[i].subtitle.duration = JsMul(c.tag.duration, c.thisScale)
\* an event whose handler was suspended while a later element changed the
\* session's timing state
C18_Witness ==
  \E i \in 1..Len(events) :
    /\ decoded[events[i].origin].suspended
    /\ \/ timecodeScale # OriginOf(events[i]).thisScale
       \/ currentClusterTimecode # OriginOf(events[i]).thisClusterTimecode
    /\ events[i].subtitle.time.k = "num"

\* C19: a fetch-by-name for an uncached name that the resolved index does
\* not list scans the data from the top and returns the element of that
\* name when the data holds one, rather than nothing.
C19_UnlistedNameScanned ==
  nav.phase = "run" =>
    \A i \in CallIds :
      (/\ Returned(i)
       /\ nav.calls[i].ctor \/ nav.calls[i].getter \notin Memoized
       /\ TagOf(nav.calls[i].getter) \notin nav.container.index
       /\ TagOf(nav.calls[i].getter) \in nav.container.data) =>
        nav.calls[i].elem.k = "tag"

====
